---- MODULE Spec2Model ----
(***************************************************************************)
(* Dispatch-and-remediation engine of the Nexus control plane: the lock    *)
(* manager, the session lifecycle, the review and remediation loop and     *)
(* the dispatch routes, as a state machine over the registry tables.       *)
(*                                                                         *)
(* Every HTTP request is a handler that alternates outcalls (Auditor,      *)
(* Agent Provider, VCS Provider) and database statements.  One action of   *)
(* the model is an outcall with the database statements that follow it up  *)
(* to the next outcall; handlers interleave between actions.  The two      *)
(* statements of acquireLocks are separate actions, since the code handles *)
(* the insert that races past the read.                                    *)
(***************************************************************************)
EXTENDS Naturals, FiniteSets, Sequences, TLC

\* ---------------------------------------------------------------- bounds
MaxSessions == 5
MaxEvents == 2
MaxPathListLen == 2
MaxJobs == 6
MaxGoalCalls == 3
MaxCriteria == 2

\* ------------------------------------------------------------- constants
MAX_REMEDIATION_DEPTH == 3
\* CASCADE_CONFIG; the confidence of the oracle is counted in hundredths
maxParallelAgents == 5
minConfidenceScore == 70

Handlers == {1, 2}
Paths == {"a.ts", "b.ts"}
Branches == {"b1", "b2"}
Commits == {"c1"}
\* commits reviewed before the model starts, one per ancestor of a chain
History == <<"h1", "h2", "h3">>
AllCommits == Commits \cup {History[i] : i \in DOMAIN History}
GoalId == "g1"
NoCommit == "none"
NoSession == 0

SessionIds == 1..MaxSessions

activeSessionStatuses == {"queued", "executing", "verifying"}
terminalStatuses == {"completed", "failed"}
sessionStatusEnum == activeSessionStatuses \cup terminalStatuses
goalStatusEnum == {"backlog", "in-progress", "completed", "drifted"}

\* the request bodies carry path lists, possibly with repeated entries
PathLists == UNION {[1..n -> Paths] : n \in 0..MaxPathListLen}

VARIABLES
  sessions,      \* table sessions: id -> row
  fileLocks,     \* table file_locks: set of rows (filePath, sessionId)
  goals,         \* table goals: the goal row; uuids counts the ids generated for it
  pc,            \* position of each request handler
  loc,           \* local variables of each request handler
  resp,          \* the response sent last
  auditorCalls,  \* Auditor invocations per (session, commit)
  comments,      \* review comments posted per (session, commit)
  julesCalls,    \* Agent Provider createSession calls
  spawned,       \* history of the child spawns: parent, child, commit, trigger
  events,        \* number of requests received so far
  cascade        \* the request to /api/cascade/analyze: oracle output, analysis, dispatch

vars == <<sessions, fileLocks, goals, pc, loc, resp, auditorCalls, comments, julesCalls, spawned, events,
         cascade>>

\* ------------------------------------------------------------ lock table
LockRow(p, s) == [filePath |-> p, sessionId |-> s]

\* new Set(filePaths)
uniquePaths(filePaths) == {filePaths[i] : i \in DOMAIN filePaths}

\* select ... from file_locks where file_path in (paths)
existingLocks(locks, paths) == {l \in locks : l.filePath \in paths}

\* the filter with the comparison inverted
conflictsInverted(existing, sid) == {l \in existing : l.sessionId = sid}

\* existingLocks.filter(lock => lock.sessionId !== sessionId)
conflicts(existing, sid) == {l \in existing : l.sessionId # sid}

\* every path of the request is inserted, also those the session holds
newLocksAll(existing, sid, paths) == {LockRow(p, sid) : p \in paths}

\* the paths of the request that the session does not hold yet
newLocks(existing, sid, paths) ==
  {LockRow(p, sid) : p \in paths \ {l.filePath : l \in existing}}

\* file_locks.file_path without its unique constraint
isUniqueViolationNever(locks, rows) == FALSE

\* unique constraint on file_locks.file_path (error 23505)
isUniqueViolation(locks, rows) ==
  \E r \in rows : \E l \in locks : l.filePath = r.filePath

\* the locks of the old session are deleted and not given to the new one
transferLocksDropped(locks, old, new) == {l \in locks : l.sessionId # old}

\* update file_locks set session_id = new where session_id = old
transferLocks(locks, old, new) ==
  {LockRow(l.filePath, IF l.sessionId = old THEN new ELSE l.sessionId) : l \in locks}

\* the delete left out
releaseLocksSkipped(locks, sid) == locks

\* the delete without its where clause
releaseLocksAll(locks, sid) == {}

\* delete from file_locks where session_id = sid
releaseLocks(locks, sid) == {l \in locks : l.sessionId # sid}

LocksOf(sid) == {l \in fileLocks : l.sessionId = sid}
PathsOf(sid) == {l.filePath : l \in LocksOf(sid)}

\* -------------------------------------------------------------- sessions
NewSessionId == Cardinality(DOMAIN sessions) + 1

SessionRow(branch, depth) ==
  [status |-> "queued", remediationDepth |-> depth, branchName |-> branch,
   lastReviewedCommit |-> NoCommit, externalSessionId |-> FALSE,
   lastError |-> FALSE, goalId |-> GoalId]

InsertSession(tbl, id, row) == [i \in DOMAIN tbl \cup {id} |-> IF i = id THEN row ELSE tbl[i]]

SetStatus(tbl, id, st) == [tbl EXCEPT ![id].status = st]

\* ------------------------------------------------------------- handlers
IdleLoc ==
  [op |-> "idle", sid |-> NoSession, sha |-> NoCommit, branch |-> "b1",
   depth |-> 0, paths |-> {}, seen |-> {}, fail |-> FALSE, child |-> NoSession,
   ci |-> NoSession, st |-> "none", dup |-> FALSE, rem |-> FALSE,
   primary |-> FALSE, jules |-> "none", pr |-> FALSE, arts |-> <<>>,
   criteria |-> <<>>, automated |-> FALSE, assessed |-> {}]

\* n numbers the responses; seen is what the read of acquireLocks returned;
\* automated says that the event was a push by the bot or with the marker;
\* assessed holds the ids that the assessment of the Auditor had entries for
NoResp ==
  [n |-> 0, op |-> "none", sid |-> NoSession, sha |-> NoCommit, res |-> "none",
   dup |-> FALSE, rem |-> FALSE, paths |-> {}, seen |-> {}, conflicts |-> {},
   fail |-> FALSE, st |-> "none", automated |-> FALSE, assessed |-> {},
   branch |-> "b1"]

Resp(l, r, c) ==
  [n |-> resp.n + 1, op |-> l.op, sid |-> l.sid, sha |-> l.sha, res |-> r, dup |-> l.dup,
   rem |-> l.rem, paths |-> l.paths, seen |-> l.seen, conflicts |-> c,
   fail |-> l.fail, st |-> l.st, automated |-> l.automated, assessed |-> l.assessed,
   branch |-> l.branch]

\* a request arrives and is served by the first handler that is free
Idle(h) ==
  /\ pc[h] = "idle" /\ events < MaxEvents
  /\ \A g \in Handlers : g < h => pc[g] # "idle"

Finish(h, l, r, c) ==
  /\ pc' = [pc EXCEPT ![h] = "idle"]
  /\ loc' = [loc EXCEPT ![h] = IdleLoc]
  /\ resp' = Resp(l, r, c)

Goto(h, label, l) ==
  /\ pc' = [pc EXCEPT ![h] = label]
  /\ loc' = [loc EXCEPT ![h] = l]
  /\ UNCHANGED resp

\* The registry after n rounds of failing review on one branch: the n
\* ancestors are failed with the commit recorded, the youngest session is
\* executing and holds the locks that were handed down the chain.
\* n = 0 is a lone dispatched session.
ChainRow(i, n) ==
  [status |-> IF i <= n THEN "failed" ELSE "executing",
   remediationDepth |-> i - 1, branchName |-> "b1",
   lastReviewedCommit |-> IF i <= n THEN History[i] ELSE NoCommit,
   externalSessionId |-> TRUE, lastError |-> FALSE, goalId |-> GoalId]

InitRegistry(n, files) ==
  /\ sessions = [i \in 1..(n + 1) |-> ChainRow(i, n)]
  /\ fileLocks = {LockRow(p, n + 1) : p \in files}
  /\ spawned = {[parent |-> i, child |-> i + 1, sha |-> History[i], by |-> "review"] : i \in 1..n}
  /\ auditorCalls = [k \in SessionIds \X AllCommits |->
                       IF k[1] <= n /\ k[2] = History[k[1]] THEN 1 ELSE 0]
  /\ comments = auditorCalls
  /\ julesCalls = n + 1

\* no cascade request
NoCascade ==
  [phase |-> "none", core |-> FALSE,
   oracle |-> [isCascade |-> FALSE, confidence |-> 0, repairJobs |-> <<>>],
   autoDispatch |-> FALSE, isCascade |-> FALSE, repairJobs |-> <<>>, row |-> "none",
   job |-> 0, dispatched |-> 0, conflictSet |-> {}, status |-> 0,
   dispatchedSessions |-> <<>>,
   telemetry |-> [dispatchedCount |-> 0, conflictCount |-> 0, failedCount |-> 0]]

InitHandlers ==
  /\ goals = [status |-> "in-progress", reviewArtifacts |-> <<>>,
              acceptanceCriteria |-> <<>>, uuids |-> 0]
  /\ pc = [h \in Handlers |-> "idle"]
  /\ loc = [h \in Handlers |-> IdleLoc]
  /\ resp = NoResp
  /\ events = 0

\* two sessions dispatched on different branches, the first holds a.ts
InitPair ==
  /\ sessions = [i \in 1..2 |-> [ChainRow(i, 0) EXCEPT !.remediationDepth = 0,
                                     !.branchName = IF i = 1 THEN "b1" ELSE "b2"]]
  /\ fileLocks = {LockRow("a.ts", 1)}
  /\ spawned = {}
  /\ auditorCalls = [k \in SessionIds \X AllCommits |-> 0]
  /\ comments = auditorCalls
  /\ julesCalls = 2

\* a registry with one session, with a remediation chain that ends one
\* level below the maximum depth or at it, or with two independent sessions
Init ==
  /\ InitHandlers
  /\ cascade = NoCascade
  /\ \/ \E n \in {0, MAX_REMEDIATION_DEPTH - 1, MAX_REMEDIATION_DEPTH} :
          InitRegistry(n, {"a.ts"})
     \/ InitPair

\* ------------------------------------------ LockManager.acquireLocks
\* What the caller does with the result of acquireLocks: requestLock
\* returns it; a dispatch job goes on to the Agent Provider, or sets its
\* session to failed on a conflict.
AcquireReturn(h, l, ok, c, tbl) ==
  IF l.op = "dispatch"
  THEN IF ok
       THEN Goto(h, "dispatch_jules", l) /\ sessions' = tbl
       ELSE /\ sessions' = [tbl EXCEPT ![l.sid].status = "failed", ![l.sid].lastError = TRUE]
            /\ Finish(h, l, "conflict", c)
  ELSE Finish(h, l, IF ok THEN "ok" ELSE "conflict", c) /\ sessions' = tbl

\* first statement of the transaction: read the existing locks of the
\* requested paths, return on a conflict or when nothing is left to insert
AcquireSelect(h, l, tbl) ==
  LET ex == existingLocks(fileLocks, l.paths)
      m == [l EXCEPT !.seen = ex] IN
  IF l.paths = {} THEN AcquireReturn(h, l, TRUE, {}, tbl)
  ELSE IF conflicts(ex, l.sid) # {} THEN AcquireReturn(h, m, FALSE, conflicts(ex, l.sid), tbl)
  ELSE IF newLocks(ex, l.sid, l.paths) = {} THEN AcquireReturn(h, m, TRUE, {}, tbl)
  ELSE Goto(h, "acquire_insert", m) /\ sessions' = tbl

\* requestLock(sessionId, filePaths) on a session that is not terminal
AcquireLocksBegin(h) ==
  /\ Idle(h)
  /\ \E sid \in DOMAIN sessions : \E fp \in PathLists :
       /\ sessions[sid].status \in activeSessionStatuses
       /\ AcquireSelect(h, [IdleLoc EXCEPT !.op = "acquire", !.sid = sid,
                                           !.paths = uniquePaths(fp)], sessions)
  /\ events' = events + 1
  /\ UNCHANGED <<fileLocks, goals, auditorCalls, comments, julesCalls, spawned, cascade>>

\* acquireLocks ends with an exception: requestLock and the cascade route
\* pass it on (the session of the job stays queued), the batch route
\* catches it and sets the session of the job to failed
AcquireThrow(h, l) ==
  /\ Finish(h, l, "error", {})
  /\ \E caught \in BOOLEAN :
       sessions' = IF l.op = "dispatch" /\ caught
                   THEN [sessions EXCEPT ![l.sid].status = "failed", ![l.sid].lastError = TRUE]
                   ELSE sessions

\* second statement: insert the missing rows.  A uniqueness violation is
\* caught and the locks are read again, in the transaction of the failed
\* insert: the rows read are returned as the conflict, or the read fails
\* as well (PostgreSQL aborts a transaction at its first error and
\* rejects what follows with 25P02) and acquireLocks throws
AcquireLocksInsert(h) ==
  /\ pc[h] = "acquire_insert"
  /\ LET l == loc[h]
         rows == newLocks(l.seen, l.sid, l.paths) IN
     IF isUniqueViolation(fileLocks, rows)
     THEN /\ UNCHANGED fileLocks
          /\ \/ AcquireReturn(h, l, FALSE, conflicts(existingLocks(fileLocks, l.paths), l.sid), sessions)
             \/ AcquireThrow(h, l)
     ELSE /\ fileLocks' = fileLocks \cup rows
          /\ AcquireReturn(h, l, TRUE, {}, sessions)
  /\ UNCHANGED <<goals, auditorCalls, comments, julesCalls, spawned, events, cascade>>

\* ------------------------------------------ LockManager.releaseLocks
ReleaseLocksCall(h) ==
  /\ Idle(h)
  /\ \E sid \in DOMAIN sessions :
       /\ fileLocks' = releaseLocks(fileLocks, sid)
       /\ Finish(h, [IdleLoc EXCEPT !.op = "release", !.sid = sid, !.seen = LocksOf(sid)],
                 "ok", {})
  /\ events' = events + 1
  /\ UNCHANGED <<sessions, goals, auditorCalls, comments, julesCalls, spawned, cascade>>

\* --------------------------------- batch / cascade dispatch of one job
\* insert the session of the job, status queued, then
\* LockManager.acquireLocks(internalSessionId, job.files)
DispatchJob(h) ==
  /\ Idle(h)
  /\ Cardinality(DOMAIN sessions) < MaxSessions
  /\ \E branch \in Branches : \E fp \in PathLists :
       AcquireSelect(h, [IdleLoc EXCEPT !.op = "dispatch", !.sid = NewSessionId,
                                        !.branch = branch, !.paths = uniquePaths(fp)],
                     InsertSession(sessions, NewSessionId, SessionRow(branch, 0)))
  /\ events' = events + 1
  /\ UNCHANGED <<fileLocks, goals, auditorCalls, comments, julesCalls, spawned, cascade>>

\* the catch of a job: the row with the id of the job is set to failed
jobFailed(tbl, sid) == [tbl EXCEPT ![sid].status = "failed", ![sid].lastError = TRUE]

\* a request that names the cascade and the job of an earlier dispatch:
\* the id cascade_<cascadeId>_<job.id> is that of a session of the
\* registry, the insert fails on the primary key and the catch of the job
\* runs with that id
DispatchJobAgain(h) ==
  /\ Idle(h)
  /\ \E sid \in {i \in DOMAIN sessions : sessions[i].remediationDepth = 0} :
       /\ sessions' = jobFailed(sessions, sid)
       /\ fileLocks' = releaseLocks(fileLocks, sid)
       /\ Finish(h, [IdleLoc EXCEPT !.op = "dispatch_again", !.sid = sid,
                                    !.branch = sessions[sid].branchName,
                                    !.st = sessions[sid].status, !.seen = LocksOf(sid)],
                 "failed", {})
  /\ events' = events + 1
  /\ UNCHANGED <<goals, auditorCalls, comments, julesCalls, spawned, cascade>>

\* julesClient.createSession, then the update of the session; when the
\* Agent Provider fails the locks of the session are deleted
DispatchJules(h) ==
  /\ pc[h] = "dispatch_jules"
  /\ julesCalls' = julesCalls + 1
  /\ \/ /\ sessions' = [sessions EXCEPT ![loc[h].sid].status = "executing",
                                         ![loc[h].sid].externalSessionId = TRUE,
                                         ![loc[h].sid].lastError = FALSE]
        /\ Finish(h, loc[h], "dispatched", {})
        /\ UNCHANGED fileLocks
     \/ /\ sessions' = [sessions EXCEPT ![loc[h].sid].status = "failed",
                                         ![loc[h].sid].lastError = TRUE]
        /\ fileLocks' = releaseLocks(fileLocks, loc[h].sid)
        /\ Finish(h, loc[h], "failed", {})
  /\ UNCHANGED <<goals, auditorCalls, comments, spawned, events, cascade>>

\* ------------------------------------- orchestrator triggerJulesSession
UnusedBranches == Branches \ {sessions[i].branchName : i \in DOMAIN sessions}

\* one transaction: conflict check, insert of the session and of its locks
TriggerJulesSession(h) ==
  /\ Idle(h)
  /\ \E fp \in PathLists \ {<<>>} :
       LET files == uniquePaths(fp)
           l == [IdleLoc EXCEPT !.op = "trigger", !.paths = files] IN
       IF existingLocks(fileLocks, files) # {}
       THEN /\ Finish(h, l, "lock_conflict", existingLocks(fileLocks, files))
            /\ UNCHANGED <<sessions, fileLocks>>
       ELSE /\ Cardinality(DOMAIN sessions) < MaxSessions
            /\ \E branch \in UnusedBranches :
                 /\ sessions' = InsertSession(sessions, NewSessionId, SessionRow(branch, 0))
                 /\ Goto(h, "trigger_jules", [l EXCEPT !.sid = NewSessionId, !.branch = branch])
            /\ fileLocks' = fileLocks \cup {LockRow(p, NewSessionId) : p \in files}
  /\ events' = events + 1
  /\ UNCHANGED <<goals, auditorCalls, comments, julesCalls, spawned, cascade>>

\* julesClient.createSession, then the update of the session; when the
\* Agent Provider fails the locks of the session on the impact files are deleted
TriggerJules(h) ==
  /\ pc[h] = "trigger_jules"
  /\ julesCalls' = julesCalls + 1
  /\ \/ /\ sessions' = [sessions EXCEPT ![loc[h].sid].status = "executing",
                                         ![loc[h].sid].externalSessionId = TRUE,
                                         ![loc[h].sid].lastError = FALSE]
        /\ Finish(h, loc[h], "ok", {})
        /\ UNCHANGED fileLocks
     \/ /\ sessions' = [sessions EXCEPT ![loc[h].sid].status = "failed",
                                         ![loc[h].sid].lastError = TRUE]
        /\ fileLocks' = {l \in fileLocks : ~(l.sessionId = loc[h].sid /\ l.filePath \in loc[h].paths)}
        /\ Finish(h, loc[h], "failed", {})
  /\ UNCHANGED <<goals, auditorCalls, comments, spawned, events, cascade>>

\* the update of the session left out
terminatedNoUpdate(tbl, sid) == tbl

\* update sessions set status = 'failed', last_error = 'Manually terminated
\* by Admin/Test teardown' where id = sid
terminated(tbl, sid) == [tbl EXCEPT ![sid].status = "failed", ![sid].lastError = TRUE]

\* ------------------------------------- POST /sessions/{id}/terminate
\* the session is set to failed, then its locks are released
Terminate(h) ==
  /\ Idle(h)
  /\ \E sid \in DOMAIN sessions :
       /\ sessions' = terminated(sessions, sid)
       /\ fileLocks' = releaseLocks(fileLocks, sid)
       /\ Finish(h, [IdleLoc EXCEPT !.op = "terminate", !.sid = sid,
                                    !.st = sessions[sid].status, !.seen = LocksOf(sid)],
                 "success", {})
  /\ events' = events + 1
  /\ UNCHANGED <<goals, auditorCalls, comments, julesCalls, spawned, cascade>>

\* ------------------------------------------------ child session spawn
\* one transaction: insert the child, queued, one level deeper, on the
\* branch of the parent, and hand the locks of the parent over to it
SpawnChild(parent, depth, branch, sha, by) ==
  /\ sessions' = InsertSession(sessions, NewSessionId, SessionRow(branch, depth + 1))
  /\ fileLocks' = transferLocks(fileLocks, parent, NewSessionId)
  /\ spawned' = spawned \cup {[parent |-> parent, child |-> NewSessionId, sha |-> sha, by |-> by]}

\* ------------------------------------------------- reviewWebhookEvent
\* the most recently created queued, executing or verifying session of the branch
ActiveOn(tbl, branch) ==
  {i \in DOMAIN tbl : tbl[i].branchName = branch /\ tbl[i].status \in activeSessionStatuses}

Newest(S) == CHOOSE i \in S : \A j \in S : j <= i

\* the commit has been reviewed to the end for a session of the branch
FullyReviewed(branch, sha) ==
  \E i \in DOMAIN sessions :
     /\ sessions[i].branchName = branch
     /\ sessions[i].lastReviewedCommit = sha
     /\ auditorCalls[<<i, sha>>] > 0
     /\ comments[<<i, sha>>] > 0

\* a failing review of the commit has spawned a child on the branch
Remediated(branch, sha) ==
  \E r \in spawned :
     /\ r.by = "review" /\ r.sha = sha
     /\ sessions[r.parent].branchName = branch
     /\ sessions[r.parent].lastReviewedCommit = sha

\* the review takes the oldest session of the branch, whatever its status
ReviewSelectOldest(h, l, emptyDiff, tbl) ==
  LET onBranch == {i \in DOMAIN tbl : tbl[i].branchName = l.branch} IN
  IF onBranch = {} THEN Finish(h, l, "no_active_session", {})
  ELSE LET sid == CHOOSE i \in onBranch : \A j \in onBranch : i <= j
           m == [l EXCEPT !.sid = sid, !.depth = tbl[sid].remediationDepth] IN
       IF tbl[sid].lastReviewedCommit = l.sha
       THEN Finish(h, m, "duplicate_commit_skipped", {})
       ELSE IF emptyDiff THEN Finish(h, m, "empty_diff_skipped", {})
       ELSE Goto(h, "review_audit", m)

\* reads of the session and of its goal, fetch of the diff; the outcomes
\* that end the review before the Auditor is called
ReviewSelect(h, l, emptyDiff, tbl) ==
  IF ActiveOn(tbl, l.branch) = {} THEN Finish(h, l, "no_active_session", {})
  ELSE LET sid == Newest(ActiveOn(tbl, l.branch))
           m == [l EXCEPT !.sid = sid, !.depth = tbl[sid].remediationDepth] IN
       IF tbl[sid].lastReviewedCommit = l.sha
       THEN Finish(h, m, "duplicate_commit_skipped", {})
       ELSE IF emptyDiff THEN Finish(h, m, "empty_diff_skipped", {})
       ELSE Goto(h, "review_audit", m)

\* who pushed and the message of the head commit, in lower case
Authors == {"dev", "jules-bot"}
Messages == {"fix", "[nexus-auto] fix"}
PushPayloads == [author : Authors, message : Messages]
NoPayload == [author |-> "none", message |-> "none"]

\* the events of the route that lead to a review
Deliveries ==
  [eventType : {"push"}, payload : PushPayloads] \cup
  [eventType : {"pull_request"}, payload : {NoPayload}]

\* author.includes("jules")
includesJules(author) == author \in {"jules-bot"}

\* message.includes("[nexus-auto]")
includesMarker(message) == message \in {"[nexus-auto] fix"}

\* no push is taken for automated
isAutomatedCommitNever(payload) == FALSE

isAutomatedCommit(payload) ==
  includesJules(payload.author) \/ includesMarker(payload.message)

\* the push comes from the bot or carries the marker
ByBotOrMarked(d) ==
  d.eventType = "push" /\ (d.payload.author = "jules-bot" \/ d.payload.message = "[nexus-auto] fix")

\* push and pull_request (opened, synchronize) webhooks; an automated push
\* is answered 202 at once
ReviewBegin(h) ==
  /\ Idle(h)
  /\ \E branch \in Branches : \E sha \in Commits : \E d \in Deliveries :
       LET l == [IdleLoc EXCEPT !.op = "review", !.branch = branch, !.sha = sha,
                                !.automated = ByBotOrMarked(d)] IN
       IF d.eventType = "push" /\ isAutomatedCommit(d.payload)
       THEN Finish(h, l, "ignored", {})
       ELSE \E emptyDiff \in BOOLEAN :
              ReviewSelect(h, [l EXCEPT !.dup = FullyReviewed(branch, sha),
                                        !.rem = Remediated(branch, sha)],
                           emptyDiff, sessions)
  /\ events' = events + 1
  /\ UNCHANGED <<sessions, fileLocks, goals, auditorCalls, comments, julesCalls, spawned, cascade>>

\* POST /goals/{id}/re-audit: the latest session of the goal gives the
\* branch and the commit; without a reviewed commit the answer is 400,
\* else reviewWebhookEvent is called as for a push of that commit
ReAuditBegin(h) ==
  /\ Idle(h)
  /\ LET latestSession == Newest(DOMAIN sessions)
         branch == sessions[latestSession].branchName
         sha == sessions[latestSession].lastReviewedCommit
         l == [IdleLoc EXCEPT !.op = "re-audit", !.branch = branch, !.sha = sha] IN
     IF sha = NoCommit
     THEN Finish(h, l, "no_session_to_re_audit", {})
     ELSE \E emptyDiff \in BOOLEAN :
            ReviewSelect(h, [l EXCEPT !.dup = FullyReviewed(branch, sha),
                                      !.rem = Remediated(branch, sha)], emptyDiff, sessions)
  /\ events' = events + 1
  /\ UNCHANGED <<sessions, fileLocks, goals, auditorCalls, comments, julesCalls, spawned, cascade>>

\* the depth test off by one
AtMaxDepthStrict(depth) == depth > MAX_REMEDIATION_DEPTH

AtMaxDepthNever(depth) == FALSE

\* session.remediationDepth >= 3
AtMaxDepth(depth) == depth >= MAX_REMEDIATION_DEPTH

\* the final update of the reviewed session
ReviewFinal(tbl, l, remediationTriggered) ==
  IF ~remediationTriggered /\ l.depth < MAX_REMEDIATION_DEPTH
  THEN [tbl EXCEPT ![l.sid].lastReviewedCommit = l.sha,
                   ![l.sid].status = IF l.fail THEN "failed" ELSE "completed"]
  ELSE IF remediationTriggered
  THEN [tbl EXCEPT ![l.sid].lastReviewedCommit = l.sha, ![l.sid].status = "failed"]
  ELSE tbl

\* an exception of the review: the push and pull_request routes answer
\* with an error, the after() callback of check_run sets its session to failed
ReviewThrow(h, l) ==
  /\ sessions' = IF l.op = "check_run"
                 THEN [sessions EXCEPT ![l.ci].status = "failed", ![l.ci].lastError = TRUE]
                 ELSE sessions
  /\ Finish(h, l, "error", {})

\* what the Auditor returns: the severity, and for the criteria of the goal
\* no assessment, an assessment with every assessed criterion met, or one
\* with an assessed criterion unmet
Severities == {"none", "minor", "major"}
Verdicts == [assessment : {"absent", "met", "unmet"}, severity : Severities]

\* hasFailure: an assessed criterion is unmet; without an assessment, the
\* severity is major
hasFailure(verdict) ==
  IF verdict.assessment # "absent" THEN verdict.assessment = "unmet"
  ELSE verdict.severity = "major"

\* the Auditor call and the comment, then by the verdict: at the maximum
\* depth the session is set to failed and the goal to drifted; below it
\* the spawn transaction; without failure the final update
ReviewAudit(h) ==
  /\ pc[h] = "review_audit"
  /\ LET l == loc[h]
         k == <<l.sid, l.sha>> IN
     /\ auditorCalls' = [auditorCalls EXCEPT ![k] = @ + 1]
     /\ \/ /\ ReviewThrow(h, l)
           /\ UNCHANGED <<comments, fileLocks, goals, spawned>>
        \/ /\ comments' = [comments EXCEPT ![k] = @ + 1]
           /\ \E verdict \in Verdicts :
                LET fail == hasFailure(verdict)
                    m == [l EXCEPT !.fail = fail] IN
                IF fail /\ AtMaxDepth(l.depth)
                THEN /\ sessions' = [sessions EXCEPT ![l.sid].status = "failed",
                                                     ![l.sid].lastError = TRUE]
                     /\ goals' = [goals EXCEPT !.status = "drifted"]
                     /\ Finish(h, m, "review_posted", {})
                     /\ UNCHANGED <<fileLocks, spawned>>
                ELSE IF fail
                THEN /\ Cardinality(DOMAIN sessions) < MaxSessions
                     /\ SpawnChild(l.sid, l.depth, sessions[l.sid].branchName, l.sha, "review")
                     /\ Goto(h, "review_dispatch", [m EXCEPT !.child = NewSessionId])
                     /\ UNCHANGED goals
                ELSE /\ sessions' = ReviewFinal(sessions, m, FALSE)
                     /\ Finish(h, m, "review_posted", {})
                     /\ UNCHANGED <<fileLocks, goals, spawned>>
  /\ UNCHANGED <<julesCalls, events, cascade>>

\* the child is set to failed without a lastError
dispatchFailedSilently(tbl, child) == [tbl EXCEPT ![child].status = "failed"]

\* the catch of the dispatch of a child: status failed, lastError the
\* message of the Agent Provider
dispatchFailed(tbl, child) ==
  [tbl EXCEPT ![child].status = "failed", ![child].lastError = TRUE]

\* julesClient.createSession for the child, the update of the child, then
\* the final update of the reviewed session
ReviewDispatch(h) ==
  /\ pc[h] = "review_dispatch"
  /\ julesCalls' = julesCalls + 1
  /\ \E accepted \in BOOLEAN :
       sessions' = ReviewFinal(
         IF accepted
         THEN [sessions EXCEPT ![loc[h].child].status = "executing",
                               ![loc[h].child].externalSessionId = TRUE]
         ELSE dispatchFailed(sessions, loc[h].child),
         loc[h], TRUE)
  /\ Finish(h, loc[h], "review_posted", {})
  /\ UNCHANGED <<fileLocks, goals, auditorCalls, comments, spawned, events, cascade>>

\* ------------------------------------------------- check_run webhook
Conclusions == {"success", "failure", "timed_out", "neutral"}
NoBranch == "none"

\* findFirst by lastReviewedCommit, else findFirst by the branch of the
\* pull request; neither query is ordered, any matching row may come back
CheckRunCandidates(headSha, branchName) ==
  LET byCommit == {i \in DOMAIN sessions : sessions[i].lastReviewedCommit = headSha} IN
  IF byCommit # {} THEN byCommit
  ELSE {i \in DOMAIN sessions : sessions[i].branchName = branchName}

\* the session of the check is looked up; a failure or timeout goes on in
\* the after() callback; a primary success sets the session to verifying
\* and starts the review of the head commit
CheckRunBegin(h) ==
  /\ Idle(h)
  /\ \E headSha \in Commits : \E branchName \in Branches \cup {NoBranch} :
     \E conclusion \in Conclusions : \E isPrimary \in BOOLEAN :
       LET cand == CheckRunCandidates(headSha, branchName)
           l == [IdleLoc EXCEPT !.op = "check_run", !.sha = headSha,
                                !.primary = isPrimary] IN
       IF cand = {} THEN Finish(h, l, "ignored", {}) /\ UNCHANGED sessions
       ELSE \E sid \in cand :
              LET m == [l EXCEPT !.ci = sid, !.depth = sessions[sid].remediationDepth,
                                 !.branch = IF branchName # NoBranch THEN branchName
                                            ELSE sessions[sid].branchName]
                  verifying == SetStatus(sessions, sid, "verifying") IN
              IF sessions[sid].status \in {"verifying", "completed", "failed"}
              THEN Finish(h, m, "ignored", {}) /\ UNCHANGED sessions
              ELSE IF conclusion \in {"failure", "timed_out"}
              THEN Goto(h, "ci_failed", m) /\ UNCHANGED sessions
              ELSE IF conclusion = "success" /\ isPrimary
              THEN /\ sessions' = verifying
                   /\ \E emptyDiff \in BOOLEAN : ReviewSelect(h, m, emptyDiff, verifying)
              ELSE Finish(h, m, "ignored", {}) /\ UNCHANGED sessions
  /\ events' = events + 1
  /\ UNCHANGED <<fileLocks, goals, auditorCalls, comments, julesCalls, spawned, cascade>>

\* CI failed: the logs are fetched, the session is set to failed; at the
\* maximum depth the goal is set to drifted and the callback ends
CIFailed(h) ==
  /\ pc[h] = "ci_failed"
  /\ sessions' = [sessions EXCEPT ![loc[h].ci].status = "failed",
                                  ![loc[h].ci].lastError = TRUE]
  /\ IF AtMaxDepth(loc[h].depth)
     THEN /\ goals' = [goals EXCEPT !.status = "drifted"]
          /\ Finish(h, loc[h], "ci_failed", {})
     ELSE /\ Goto(h, "ci_remediate", loc[h])
          /\ UNCHANGED goals
  /\ UNCHANGED <<fileLocks, auditorCalls, comments, julesCalls, spawned, events, cascade>>

\* POST /api/cascade/analyze with the remediation body is answered with an
\* error (the body has none of the fields cascadeRequestSchema requires):
\* the catch of the callback sets the session to failed
AnalyzeRejected(h) ==
  /\ pc[h] = "ci_remediate"
  /\ sessions' = [sessions EXCEPT ![loc[h].ci].status = "failed",
                                  ![loc[h].ci].lastError = TRUE]
  /\ Finish(h, loc[h], "error", {})
  /\ UNCHANGED <<fileLocks, goals, auditorCalls, comments, julesCalls, spawned, events, cascade>>

\* autoRemediate, the function the remediation body is meant for: the
\* session is read again, then the spawn transaction; the exception at
\* the maximum depth ends in the catch of the callback
AutoRemediate(h) ==
  /\ pc[h] = "ci_remediate"
  /\ LET sid == loc[h].ci IN
     IF AtMaxDepth(sessions[sid].remediationDepth)
     THEN /\ sessions' = [sessions EXCEPT ![sid].status = "failed", ![sid].lastError = TRUE]
          /\ Finish(h, loc[h], "error", {})
          /\ UNCHANGED <<fileLocks, spawned>>
     ELSE /\ Cardinality(DOMAIN sessions) < MaxSessions
          /\ SpawnChild(sid, sessions[sid].remediationDepth, sessions[sid].branchName,
                        loc[h].sha, "ci")
          /\ Goto(h, "ci_dispatch", [loc[h] EXCEPT !.child = NewSessionId])
  /\ UNCHANGED <<goals, auditorCalls, comments, julesCalls, events, cascade>>

\* autoRemediate: julesClient.createSession for the child and the update
\* of the child; then the callback refreshes lastError of the parent, or
\* sets the parent to failed in its catch when the Agent Provider failed
AutoRemediateDispatch(h) ==
  /\ pc[h] = "ci_dispatch"
  /\ julesCalls' = julesCalls + 1
  /\ \/ /\ sessions' = [sessions EXCEPT ![loc[h].child].status = "executing",
                                         ![loc[h].child].externalSessionId = TRUE,
                                         ![loc[h].ci].lastError = TRUE]
        /\ Finish(h, loc[h], "ci_remediated", {})
     \/ /\ sessions' = [dispatchFailed(sessions, loc[h].child) EXCEPT
                           ![loc[h].ci].status = "failed",
                           ![loc[h].ci].lastError = TRUE]
        /\ Finish(h, loc[h], "error", {})
  /\ UNCHANGED <<fileLocks, goals, auditorCalls, comments, spawned, events, cascade>>

\* --------------------------------------- pull_request closed webhook
\* findFirst by branch, unordered; a session that is not terminal is set
\* to completed or failed and its locks are released
PRClosed(h) ==
  /\ Idle(h)
  /\ \E branch \in Branches : \E merged \in BOOLEAN :
       LET cand == {i \in DOMAIN sessions : sessions[i].branchName = branch}
           l == [IdleLoc EXCEPT !.op = "pr_closed", !.branch = branch,
                                !.st = IF merged THEN "completed" ELSE "failed"] IN
       IF cand = {}
       THEN Finish(h, l, "ignored", {}) /\ UNCHANGED <<sessions, fileLocks>>
       ELSE \E sid \in cand :
              IF sessions[sid].status \notin terminalStatuses
              THEN /\ sessions' = SetStatus(sessions, sid, l.st)
                   /\ fileLocks' = releaseLocks(fileLocks, sid)
                   /\ Finish(h, [l EXCEPT !.sid = sid], "session_cleaned_up", {})
              ELSE /\ Finish(h, [l EXCEPT !.sid = sid], "ignored", {})
                   /\ UNCHANGED <<sessions, fileLocks>>
  /\ events' = events + 1
  /\ UNCHANGED <<goals, auditorCalls, comments, julesCalls, spawned, cascade>>

\* --------------------------------------------------- syncSessionStatus
JulesStatuses == {"PLANNING", "RUNNING", "COMPLETED", "FAILED", "CANCELLED", "PAUSED"}
NoStatus == "none"

mapCancelledToNone(status) ==
  CASE status \in {"PLANNING", "RUNNING"} -> "executing"
    [] status = "COMPLETED" -> "completed"
    [] status = "FAILED" -> "failed"
    [] OTHER -> NoStatus

mapJulesStatusToRegistryStatus(status) ==
  CASE status \in {"PLANNING", "RUNNING"} -> "executing"
    [] status = "COMPLETED" -> "completed"
    [] status \in {"FAILED", "CANCELLED"} -> "failed"
    [] OTHER -> NoStatus

\* artifacts.some(artifact => url and sessionExternalId are those of the
\* session); an artifact of the model is the session it belongs to
alreadyExists(artifacts, sid) == \E i \in DOMAIN artifacts : artifacts[i] = sid

\* read of the session, julesClient.getSession: the status of the
\* provider and, for a completed session, whether it has a pull request
SyncBegin(h) ==
  /\ Idle(h)
  /\ \E sid \in DOMAIN sessions : \E status \in JulesStatuses : \E prUrl \in BOOLEAN :
       /\ sessions[sid].externalSessionId
       /\ prUrl => status = "COMPLETED"
       /\ Goto(h, "sync_tx", [IdleLoc EXCEPT !.op = "sync", !.sid = sid, !.jules = status,
                                             !.st = mapJulesStatusToRegistryStatus(status),
                                             !.pr = prUrl])
  /\ events' = events + 1
  /\ UNCHANGED <<sessions, fileLocks, goals, auditorCalls, comments, julesCalls, spawned, cascade>>

\* the update of the session row is the first statement of the
\* transaction: it waits while another transaction that updated the row
\* has not committed
RowLocked(h, sid) ==
  \E g \in Handlers \ {h} : pc[g] = "sync_commit" /\ loc[g].sid = sid

\* the transaction up to the read of the goal: without a mapped status it
\* is empty; with a completed session that has a pull request the goal is
\* read and the transaction goes on; otherwise it commits the status and,
\* for a terminal status, the delete of the locks
SyncTx(h) ==
  /\ pc[h] = "sync_tx"
  /\ LET l == loc[h] IN
     IF l.st = NoStatus
     THEN Finish(h, l, "synced", {}) /\ UNCHANGED <<sessions, fileLocks>>
     ELSE /\ ~RowLocked(h, l.sid)
          /\ IF l.st = "completed" /\ l.pr
             THEN /\ Goto(h, "sync_commit", [l EXCEPT !.arts = goals.reviewArtifacts])
                  /\ UNCHANGED <<sessions, fileLocks>>
             ELSE /\ sessions' = [sessions EXCEPT ![l.sid].status = l.st,
                                                  ![l.sid].lastError = FALSE]
                  /\ fileLocks' = IF l.st \in {"completed", "failed"}
                                  THEN releaseLocks(fileLocks, l.sid) ELSE fileLocks
                  /\ Finish(h, l, "synced", {})
  /\ UNCHANGED <<goals, auditorCalls, comments, julesCalls, spawned, events, cascade>>

\* the rest of the transaction of a completed session and its commit: the
\* artifact is appended to the array that was read unless it is in it, the
\* array is written back, the locks are deleted
SyncCommit(h) ==
  /\ pc[h] = "sync_commit"
  /\ LET l == loc[h] IN
     /\ sessions' = [sessions EXCEPT ![l.sid].status = l.st, ![l.sid].lastError = FALSE]
     /\ goals' = IF alreadyExists(l.arts, l.sid) THEN goals
                 ELSE [goals EXCEPT !.reviewArtifacts = Append(l.arts, l.sid)]
     /\ fileLocks' = releaseLocks(fileLocks, l.sid)
     /\ Finish(h, l, "synced", {})
  /\ UNCHANGED <<auditorCalls, comments, julesCalls, spawned, events, cascade>>

\* ------------------------------------------- POST /api/cascade/analyze
\* the repair jobs of the oracle: the files of a job and its priority
Priorities == {"high", "low"}
JobFiles == {{p} : p \in Paths}
RepairJobs == [files : JobFiles, priority : Priorities]
JobLists == UNION {[1..n -> RepairJobs] : n \in 0..MaxJobs}
\* confidence just below the minimum and at it
Confidences == {minConfidenceScore - 1, minConfidenceScore}

\* Array.prototype.slice(0, n)
slice(list, n) == SubSeq(list, 1, IF Len(list) < n THEN Len(list) ELSE n)

\* Array.prototype.filter with a test that does not look at the element
filter(list, keep) == IF keep THEN list ELSE <<>>

\* the test of the confidence left out
qualifiedAlways(confidence) == TRUE

\* analysis.confidence >= CASCADE_CONFIG.minConfidenceScore
qualified(confidence) == confidence >= minConfidenceScore

\* without a core file among the changes the oracle is not asked; an
\* exception of the oracle gives the empty analysis; otherwise the
\* analysis of the oracle with its jobs filtered and cut
analyzeCascade(core, analysis, throws) ==
  IF ~core THEN [isCascade |-> FALSE, confidence |-> 100, repairJobs |-> <<>>]
  ELSE IF throws THEN [isCascade |-> FALSE, confidence |-> 0, repairJobs |-> <<>>]
  ELSE [analysis EXCEPT
          !.repairJobs = slice(filter(analysis.repairJobs, qualified(analysis.confidence)),
                               maxParallelAgents)]

\* the route answers 409 for any conflict
fullyBlockedAnyConflict(dispatchedCount, conflictSet) == conflictSet # {}

\* dispatchedCount === 0 && conflictSet.size > 0
fullyBlocked(dispatchedCount, conflictSet) == dispatchedCount = 0 /\ conflictSet # {}

\* the cascade is failed whatever was dispatched
cascadeStatusFailed(dispatchedCount) == "failed"

\* dispatchedCount > 0 ? "dispatched" : "failed"
cascadeStatus(dispatchedCount) == IF dispatchedCount > 0 THEN "dispatched" ELSE "failed"

\* dispatchedSessions.filter(session => session.status === status).length
countStatus(dispatchedSessions, status) ==
  Cardinality({i \in DOMAIN dispatchedSessions : dispatchedSessions[i] = status})

\* an empty registry
InitEmpty ==
  /\ sessions = <<>>
  /\ fileLocks = {}
  /\ spawned = {}
  /\ auditorCalls = [k \in SessionIds \X AllCommits |-> 0]
  /\ comments = auditorCalls
  /\ julesCalls = 0

\* a request to the route, with the answer the oracle will give for it
InitCascade ==
  /\ InitHandlers
  /\ InitEmpty \/ InitRegistry(0, {"a.ts"})
  /\ \E core \in BOOLEAN : \E isCascade \in BOOLEAN :
     \E confidence \in Confidences : \E jobs \in JobLists :
       /\ ~core => ~isCascade /\ confidence = minConfidenceScore /\ jobs = <<>>
       /\ cascade = [NoCascade EXCEPT
                       !.phase = "request", !.core = core,
                       !.oracle = [isCascade |-> isCascade, confidence |-> confidence,
                                   repairJobs |-> jobs]]

\* analyzeCascade; without a cascade the route answers at once, otherwise
\* it records the cascade and, with autoDispatch and at least one job,
\* goes on to the dispatch
CascadeAnalyze ==
  /\ cascade.phase = "request"
  /\ \E autoDispatch \in BOOLEAN : \E throws \in BOOLEAN :
       LET analysis == analyzeCascade(cascade.core, cascade.oracle, throws)
           dispatch == autoDispatch /\ Len(analysis.repairJobs) > 0 IN
       cascade' = IF ~analysis.isCascade
                  THEN [cascade EXCEPT !.phase = "done", !.status = 200]
                  ELSE [cascade EXCEPT
                          !.isCascade = TRUE, !.row = "analyzing",
                          !.repairJobs = analysis.repairJobs,
                          !.autoDispatch = autoDispatch, !.job = 1,
                          !.phase = IF dispatch THEN "dispatch" ELSE "done",
                          !.status = IF dispatch THEN 0 ELSE 200]
  /\ UNCHANGED <<sessions, fileLocks, goals, pc, loc, resp, auditorCalls, comments,
                 julesCalls, spawned, events>>

\* one turn of the loop over the jobs: the session of the job, its locks,
\* then the Agent Provider; a conflict or a refusal of the provider
\* leaves the session failed without locks
CascadeDispatchJob ==
  /\ cascade.phase = "dispatch" /\ cascade.job <= Len(cascade.repairJobs)
  /\ LET job == cascade.repairJobs[cascade.job]
         sid == NewSessionId
         inserted == InsertSession(sessions, sid, SessionRow("b1", 0))
         existing == existingLocks(fileLocks, job.files)
         c == conflicts(existing, sid)
         failed == [inserted EXCEPT ![sid].status = "failed", ![sid].lastError = TRUE] IN
     IF c # {}
     THEN /\ sessions' = failed
          /\ cascade' = [cascade EXCEPT !.job = @ + 1,
                                        !.conflictSet = @ \cup c,
                                        !.dispatchedSessions = Append(@, "conflict")]
          /\ UNCHANGED <<fileLocks, julesCalls>>
     ELSE /\ julesCalls' = julesCalls + 1
          /\ \/ /\ sessions' = [inserted EXCEPT ![sid].status = "executing",
                                                ![sid].externalSessionId = TRUE]
                /\ fileLocks' = fileLocks \cup newLocks(existing, sid, job.files)
                /\ cascade' = [cascade EXCEPT !.job = @ + 1, !.dispatched = @ + 1,
                                              !.dispatchedSessions = Append(@, "dispatched")]
             \/ /\ sessions' = failed
                /\ fileLocks' = releaseLocks(fileLocks \cup newLocks(existing, sid, job.files), sid)
                /\ cascade' = [cascade EXCEPT !.job = @ + 1,
                                              !.dispatchedSessions = Append(@, "failed")]
  /\ UNCHANGED <<goals, pc, loc, resp, auditorCalls, comments, spawned, events>>

\* after the loop: the status of the cascade and the response, 409 with
\* the conflicts when nothing was dispatched and there were conflicts,
\* otherwise 200 with the outcome of every job; the telemetry of the 409
\* counts the paths in conflict, that of the 200 the jobs in conflict
CascadeRespond ==
  /\ cascade.phase = "dispatch" /\ cascade.job > Len(cascade.repairJobs)
  /\ LET dispatchedCount == countStatus(cascade.dispatchedSessions, "dispatched")
         conflictJobs == countStatus(cascade.dispatchedSessions, "conflict")
         failedCount == conflictJobs + countStatus(cascade.dispatchedSessions, "failed")
         blocked == fullyBlocked(dispatchedCount, cascade.conflictSet) IN
     cascade' = [cascade EXCEPT
                   !.phase = "done",
                   !.row = cascadeStatus(dispatchedCount),
                   !.status = IF blocked THEN 409 ELSE 200,
                   !.telemetry = [dispatchedCount |-> dispatchedCount,
                                  conflictCount |-> IF blocked
                                                    THEN Cardinality(cascade.conflictSet)
                                                    ELSE conflictJobs,
                                  failedCount |-> failedCount]]
  /\ UNCHANGED <<sessions, fileLocks, goals, pc, loc, resp, auditorCalls, comments,
                 julesCalls, spawned, events>>

\* ------------------------------------------------ goals and criteria
NoGoal == "absent"
NoId == 0
Texts == {"x", "y"}

\* a criterion of a request body: a string, or an object with an optional
\* id; a client sends ids of the criteria the goal has
CriterionInputs(known) ==
  [kind : {"string"}, id : {NoId}, text : Texts, met : {FALSE}]
    \cup [kind : {"object"}, id : {NoId} \cup known, text : Texts, met : BOOLEAN]

CriteriaInputs(known) == UNION {[1..n -> CriterionInputs(known)] : n \in 1..MaxCriteria}

\* the status of a request body: absent, or a value of the enum (one of
\* the four in the model)
StatusInputs == {NoStatus, "drifted"}

\* the number of randomUUID() calls for the first n criteria of a body
Generated(body, n) == Cardinality({i \in 1..n : body[i].id = NoId})

\* the criteria of a body as they are stored: a string or an object
\* without id gets a new id, an object with an id keeps it
normalizedCriteria(body, uuids) ==
  [i \in DOMAIN body |->
     [id |-> IF body[i].id = NoId THEN uuids + Generated(body, i) ELSE body[i].id,
      text |-> body[i].text, met |-> body[i].met]]

\* a key of an assessment that is the id of no criterion
UnknownId == 99

\* every criterion takes the verdict of the first entry of the assessment
updatedCriteriaByPosition(criteria, assessment) ==
  [i \in DOMAIN criteria |->
     [criteria[i] EXCEPT !.met = \E id \in DOMAIN assessment : assessment[id] = "met"]]

\* the merge of an assessment: a criterion whose id is assessed takes the
\* verdict, the others stay
updatedCriteria(criteria, assessment) ==
  [i \in DOMAIN criteria |->
     IF assessment[criteria[i].id] = "none" THEN criteria[i]
     ELSE [criteria[i] EXCEPT !.met = (assessment[criteria[i].id] = "met")]]

\* the registry without a goal
InitGoal ==
  /\ goals = [status |-> NoGoal, reviewArtifacts |-> <<>>,
              acceptanceCriteria |-> <<>>, uuids |-> 0]
  /\ pc = [h \in Handlers |-> "idle"]
  /\ loc = [h \in Handlers |-> IdleLoc]
  /\ resp = NoResp
  /\ events = 0
  /\ InitEmpty
  /\ cascade = NoCascade

\* POST /api/goals
CreateGoal ==
  /\ goals.status = NoGoal /\ events < MaxGoalCalls
  /\ \E body \in CriteriaInputs({}) : \E status \in StatusInputs :
       goals' = [goals EXCEPT
                   !.status = IF status = NoStatus THEN "backlog" ELSE status,
                   !.acceptanceCriteria = normalizedCriteria(body, goals.uuids),
                   !.uuids = @ + Generated(body, Len(body))]
  /\ events' = events + 1
  /\ UNCHANGED <<sessions, fileLocks, pc, loc, resp, auditorCalls, comments, julesCalls,
                 spawned, cascade>>

\* PATCH /api/goals/{id}: the fields of the body replace those of the row;
\* the requests of the model carry a status or criteria, not both
PatchGoal ==
  /\ goals.status # NoGoal /\ events < MaxGoalCalls
  /\ \/ \E status \in StatusInputs \ {NoStatus} : goals' = [goals EXCEPT !.status = status]
     \/ \E body \in CriteriaInputs({goals.acceptanceCriteria[i].id :
                                       i \in DOMAIN goals.acceptanceCriteria}) :
          goals' = [goals EXCEPT
                      !.acceptanceCriteria = normalizedCriteria(body, goals.uuids),
                      !.uuids = @ + Generated(body, Len(body))]
  /\ events' = events + 1
  /\ UNCHANGED <<sessions, fileLocks, pc, loc, resp, auditorCalls, comments, julesCalls,
                 spawned, cascade>>

\* reviewWebhookEvent reads the goal, then asks the Auditor
GoalReviewRead(h) ==
  /\ pc[h] = "idle" /\ \A g \in Handlers : g < h => pc[g] # "idle"
  /\ goals.status # NoGoal /\ events < MaxGoalCalls
  /\ Goto(h, "goal_review", [IdleLoc EXCEPT !.op = "goal_review",
                                            !.criteria = goals.acceptanceCriteria])
  /\ events' = events + 1
  /\ UNCHANGED <<sessions, fileLocks, goals, auditorCalls, comments, julesCalls, spawned,
                 cascade>>

\* the assessment of the Auditor is merged into the criteria that were
\* read and the result is written to the goal
GoalReviewWrite(h) ==
  /\ pc[h] = "goal_review"
  /\ LET criteria == loc[h].criteria
         ids == {criteria[i].id : i \in DOMAIN criteria} IN
     \/ /\ Finish(h, loc[h], "review_posted", {})
        /\ UNCHANGED goals
     \/ \E assessment \in [ids \cup {UnknownId} -> {"none", "met", "unmet"}] :
          /\ goals' = [goals EXCEPT !.acceptanceCriteria = updatedCriteria(criteria, assessment)]
          /\ Finish(h, [loc[h] EXCEPT
                          !.fail = \E id \in ids : assessment[id] = "unmet",
                          !.assessed = {id \in DOMAIN assessment : assessment[id] # "none"}],
                    "review_posted", {})
  /\ UNCHANGED <<sessions, fileLocks, auditorCalls, comments, julesCalls, spawned, events,
                 cascade>>

\* ------------------------------------------------------------ properties
\* the rows of the given paths that belong to a session other than sid
HeldByOthers(locks, paths, sid) ==
  {l \in locks : l.filePath \in paths /\ l.sessionId # sid}

LockedPaths(locks) == {l.filePath : l \in locks}

\* the handler takes the step
Steps(h) == pc'[h] # pc[h] \/ loc'[h] # loc[h]

\* C1 (L1, lock exclusivity): in every reachable state, under any
\* interleaving of acquire, release, the dispatch routes, remediation spawn
\* and termination, the lock table holds at most one row per file path.
LockExclusivity ==
  \A l1 \in fileLocks : \A l2 \in fileLocks : l1.filePath = l2.filePath => l1 = l2

\* C1: an acquire lost the race for a path it had read as free, and two
\* sessions hold locks
LockExclusivityWitness ==
  /\ resp.op = "acquire" /\ resp.res = "conflict"
  /\ HeldByOthers(resp.seen, resp.paths, resp.sid) = {}
  /\ \E l1 \in fileLocks : \E l2 \in fileLocks : l1.sessionId # l2.sessionId

\* C2 (L2, terminal-state cleanup): in every state no row of the lock
\* table references a session whose status is completed or failed.
TerminalSessionHoldsNoLock ==
  \A l \in fileLocks : sessions[l.sessionId].status \notin terminalStatuses

\* C3 (S2): once the status of a session is completed or failed, no
\* operation changes it again.
TerminalStatusIsFinal ==
  [][\A i \in DOMAIN sessions :
       sessions[i].status \in terminalStatuses => sessions'[i].status = sessions[i].status]_vars

\* C4 (S3, bounded remediation): no session has a remediation depth above
\* 3; no child was spawned by a session at depth 3; every child is one
\* level deeper than its parent.
BoundedRemediation ==
  /\ \A i \in DOMAIN sessions : sessions[i].remediationDepth <= MAX_REMEDIATION_DEPTH
  /\ \A r \in spawned :
       /\ sessions[r.parent].remediationDepth < MAX_REMEDIATION_DEPTH
       /\ sessions[r.child].remediationDepth = sessions[r.parent].remediationDepth + 1

\* C4: a child spawned at depth 3 by a failing review has failed in its
\* turn, the goal is drifted and the child has no child
BoundedRemediationWitness ==
  \E r \in spawned :
     /\ r.sha \in Commits
     /\ sessions[r.child].remediationDepth = MAX_REMEDIATION_DEPTH
     /\ sessions[r.child].status = "failed"
     /\ goals.status = "drifted"
     /\ \A q \in spawned : q.parent # r.child

\* C5 (I1, review idempotence): whatever the interleaving of the
\* deliveries of a commit for a session, the Auditor review of that commit
\* for that session is made once: at most one review comment is posted.
ReviewedOnce ==
  \A k \in DOMAIN comments : comments[k] <= 1

\* C6: a redelivery of a push whose commit has been reviewed to the end
\* (Auditor called, comment posted, commit recorded) is answered with
\* duplicate_commit_skipped.
RedeliveryIsSkipped ==
  (resp.op = "review" /\ resp.dup) => resp.res = "duplicate_commit_skipped"

\* C7: once a failing review of a commit has spawned a child, the handler
\* of a redelivery of that commit creates no session and makes no Agent
\* Provider call.
NoSecondRemediation ==
  [][\A h \in Handlers :
       (loc[h].rem /\ Steps(h)) =>
          /\ DOMAIN sessions' = DOMAIN sessions
          /\ spawned' = spawned
          /\ julesCalls' = julesCalls]_vars

\* C8: an acquire that finds a requested path locked by another session
\* is answered ok:false with the rows of the other sessions as conflicts
\* and leaves the lock table as it was; only a request without such a path
\* goes on to the insert or to the Agent Provider.
ConflictLeavesLocks ==
  [][/\ (events' # events /\ resp'.n # resp.n /\ resp'.op \in {"acquire", "dispatch"}
           /\ HeldByOthers(fileLocks, resp'.paths, resp'.sid) # {})
        => /\ resp'.res = "conflict"
           /\ resp'.conflicts = HeldByOthers(fileLocks, resp'.paths, resp'.sid)
           /\ fileLocks' = fileLocks
     /\ \A h \in Handlers :
          (pc[h] = "idle" /\ pc'[h] \in {"acquire_insert", "dispatch_jules"})
          => HeldByOthers(fileLocks, loc'[h].paths, loc'[h].sid) = {}]_vars

\* C8: a request for a locked and a free path was refused, and the free
\* path is still free
ConflictLeavesLocksWitness ==
  /\ resp.op = "acquire" /\ resp.res = "conflict"
  /\ HeldByOthers(resp.seen, resp.paths, resp.sid) # {}
  /\ resp.paths \ LockedPaths(fileLocks) # {}

\* C9: two sessions acquire a path that both read as unlocked.  The first
\* insert is answered ok:true; the second, which meets the row of the
\* first, is answered ok:false with a conflict that names the path and
\* the winning session, and inserts no row.
RaceBecomesConflict ==
  [][\A h \in Handlers :
       LET l == loc[h]
           won == HeldByOthers(fileLocks, l.paths \ LockedPaths(l.seen), l.sid) IN
       (/\ pc[h] = "acquire_insert" /\ pc'[h] = "idle" /\ l.op = "acquire"
        /\ resp.op = "acquire" /\ resp.res = "ok" /\ resp.sid # l.sid
        /\ won # {} /\ won \subseteq {LockRow(p, resp.sid) : p \in resp.paths})
       => /\ resp'.res = "conflict"
          /\ won \subseteq resp'.conflicts
          /\ fileLocks' = fileLocks]_vars

\* C10: the spawn transaction hands the locks over in one step: the child
\* holds exactly the paths the parent held, the parent holds none, the
\* rows of the other sessions, the number of rows and the set of locked
\* paths are unchanged.
HandoffIsAtomic ==
  [][\A r \in spawned' \ spawned :
       /\ {l.filePath : l \in {x \in fileLocks' : x.sessionId = r.child}} = PathsOf(r.parent)
       /\ {x \in fileLocks' : x.sessionId = r.parent} = {}
       /\ \A l \in fileLocks : l.sessionId # r.parent => l \in fileLocks'
       /\ Cardinality(fileLocks') = Cardinality(fileLocks)
       /\ LockedPaths(fileLocks') = LockedPaths(fileLocks)]_vars

\* C10: a spawn transaction has just handed the locks of the reviewed
\* session over to the child
HandoffIsAtomicWitness ==
  \E h \in Handlers :
     /\ pc[h] = "review_dispatch"
     /\ PathsOf(loc[h].child) # {}
     /\ PathsOf(loc[h].sid) = {}
     /\ \E r \in spawned : r.parent = loc[h].sid /\ r.child = loc[h].child

\* C11: when a session at remediation depth 3 fails, by a failing review
\* of the Auditor or by a failure of CI, no child session is created, the
\* session becomes failed and the goal becomes drifted.
NoChildAtMaxDepth ==
  [][\A h \in Handlers :
       /\ (pc[h] = "ci_failed" /\ loc[h].depth = MAX_REMEDIATION_DEPTH /\ Steps(h)) =>
            /\ DOMAIN sessions' = DOMAIN sessions /\ spawned' = spawned
            /\ pc'[h] = "idle"
            /\ sessions'[loc[h].ci].status = "failed"
            /\ goals'.status = "drifted"
       /\ (pc[h] = "review_audit" /\ loc[h].depth = MAX_REMEDIATION_DEPTH /\ Steps(h)) =>
            /\ DOMAIN sessions' = DOMAIN sessions /\ spawned' = spawned
            /\ pc'[h] = "idle"
            /\ resp'.fail => /\ sessions'[loc[h].sid].status = "failed"
                             /\ goals'.status = "drifted"]_vars

\* C11: a review at depth 3 has failed; the session is failed, the goal
\* drifted and the session has no child
NoChildAtMaxDepthWitness ==
  /\ resp.res = "review_posted" /\ resp.fail
  /\ sessions[resp.sid].remediationDepth = MAX_REMEDIATION_DEPTH
  /\ sessions[resp.sid].status = "failed" /\ goals.status = "drifted"
  /\ \A c \in spawned : c.parent # resp.sid

\* C12: a check_run with conclusion failure or timed_out for a session
\* below remediation depth 3 moves the session to failed and spawns a
\* child repair session one level deeper that receives the locks of the
\* parent.
CIFailureSpawnsChild ==
  [][\A h \in Handlers :
       (pc[h] = "ci_remediate" /\ Steps(h)) =>
         /\ sessions'[loc[h].ci].status = "failed"
         /\ \E r \in spawned' \ spawned :
              /\ r.parent = loc[h].ci
              /\ sessions'[r.child].remediationDepth = loc[h].depth + 1
              /\ {l.filePath : l \in {k \in fileLocks' : k.sessionId = r.child}}
                   = PathsOf(loc[h].ci)]_vars

\* C13: a check_run of a pipeline that is not primary never changes the
\* status or the locks of any session, whatever its conclusion.
NonPrimaryCheckIsIgnored ==
  [][\A h \in Handlers :
       (/\ Steps(h)
        /\ \/ loc[h].op = "check_run" /\ ~loc[h].primary
           \/ loc'[h].op = "check_run" /\ ~loc'[h].primary) =>
         /\ \A i \in DOMAIN sessions : sessions'[i].status = sessions[i].status
         /\ fileLocks' = fileLocks]_vars

\* C14: a pull_request closed event for a branch with a session that is
\* not terminal moves that session to completed when the pull request
\* was merged and to failed when it was not, and removes all locks of the
\* session; when every session of the branch is terminal the event
\* changes nothing.
PRClosedCleansUp ==
  [][(resp'.n # resp.n /\ resp'.op = "pr_closed" /\ resp'.sid # NoSession) =>
       LET onBranch == {i \in DOMAIN sessions :
                          sessions[i].branchName = sessions[resp'.sid].branchName}
           open == {i \in onBranch : sessions[i].status \notin terminalStatuses} IN
       /\ Cardinality(open) = 1 =>
            \A i \in open : /\ sessions'[i].status = resp'.st
                            /\ \A l \in fileLocks' : l.sessionId # i
       /\ open = {} => sessions' = sessions /\ fileLocks' = fileLocks]_vars

\* C15: when the pull request of a session is closed as merged, the
\* reviewArtifacts of the goal gain the pull request of the session (once,
\* also when the event is delivered again).
MergedCloseRecordsArtifact ==
  [][(/\ resp'.n # resp.n /\ resp'.op = "pr_closed"
      /\ resp'.res = "session_cleaned_up" /\ resp'.st = "completed") =>
       Cardinality({i \in DOMAIN goals'.reviewArtifacts :
                      goals'.reviewArtifacts[i] = resp'.sid}) = 1]_vars

OneArtifactPerSession ==
  [][\A sid \in DOMAIN sessions :
       LET before == {i \in DOMAIN goals.reviewArtifacts : goals.reviewArtifacts[i] = sid}
           after == {i \in DOMAIN goals'.reviewArtifacts : goals'.reviewArtifacts[i] = sid}
           commits == \E h \in Handlers :
                        pc[h] = "sync_commit" /\ loc[h].sid = sid /\ pc'[h] = "idle" IN
       /\ Cardinality(after) <= 1
       /\ commits => Cardinality(after) = 1
       /\ Cardinality(before) = 1 => Cardinality(after) = 1]_vars

\* the order of the priorities of a job
rank(priority) == CASE priority = "high" -> 3 [] priority = "medium" -> 2 [] OTHER -> 1

Count(list, priority) == Cardinality({i \in DOMAIN list : list[i].priority = priority})

\* the route has the analysis of a cascade
Analysed == cascade.phase \in {"dispatch", "done"} /\ cascade.isCascade

\* C18: in every cascade analysis response, and so in every set of jobs
\* that is dispatched, the files of the jobs are pairwise disjoint,
\* whatever the oracle returned.
CascadeJobsDisjoint ==
  Analysed =>
    \A i \in DOMAIN cascade.repairJobs : \A j \in DOMAIN cascade.repairJobs :
       i # j => cascade.repairJobs[i].files \cap cascade.repairJobs[j].files = {}

\* C19: when the oracle returns more than maxParallelAgents jobs (with
\* sufficient confidence), exactly maxParallelAgents jobs are kept and no
\* dropped job has a strictly higher priority than a kept job.
CapKeepsHighestPriority ==
  (/\ Analysed
   /\ cascade.oracle.confidence >= minConfidenceScore
   /\ Len(cascade.oracle.repairJobs) > maxParallelAgents) =>
    /\ Len(cascade.repairJobs) = maxParallelAgents
    /\ \A p \in Priorities : \A q \in Priorities :
         (/\ Count(cascade.oracle.repairJobs, p) > Count(cascade.repairJobs, p)
          /\ Count(cascade.repairJobs, q) > 0) => rank(p) <= rank(q)

\* C20: when the oracle reports a cascade with confidence below the
\* minimum, every job is discarded: the cascade is recorded, but no
\* session is created, no lock is acquired and the Agent Provider is not
\* called.
LowConfidenceIsNotDispatched ==
  [][(/\ cascade.core /\ cascade.oracle.isCascade
      /\ cascade.oracle.confidence < minConfidenceScore) =>
       /\ sessions' = sessions /\ fileLocks' = fileLocks /\ julesCalls' = julesCalls
       /\ cascade'.phase \in {"request", "done"}
       /\ (cascade'.phase = "done" /\ cascade'.isCascade) =>
            cascade'.row = "analyzing" /\ cascade'.repairJobs = <<>>]_vars

\* C20: a cascade of low confidence whose jobs were to be dispatched has
\* been answered: it is recorded and has no job
LowConfidenceIsNotDispatchedWitness ==
  /\ cascade.phase = "done" /\ cascade.isCascade /\ cascade.autoDispatch
  /\ cascade.oracle.confidence < minConfidenceScore
  /\ Len(cascade.oracle.repairJobs) > 0
  /\ cascade.row = "analyzing" /\ cascade.repairJobs = <<>>
  /\ sessions = <<>> /\ fileLocks = {} /\ julesCalls = 0

ConflictFailsOnlyItsJob ==
  LET outcome == cascade.dispatchedSessions
      before == Len(sessions) - Len(outcome)
      dispatchedCount == countStatus(outcome, "dispatched")
      conflictJobs == countStatus(outcome, "conflict") IN
  /\ \A i \in DOMAIN outcome :
       /\ outcome[i] = "conflict" =>
            /\ sessions[before + i].status = "failed" /\ sessions[before + i].lastError
            /\ ~sessions[before + i].externalSessionId
            /\ \A l \in fileLocks : l.sessionId # before + i
       /\ outcome[i] = "dispatched" =>
            /\ sessions[before + i].status = "executing"
            /\ cascade.repairJobs[i].files \subseteq {l.filePath : l \in LocksOf(before + i)}
  /\ julesCalls = before + Len(outcome) - conflictJobs
  /\ (cascade.phase = "done" /\ dispatchedCount = 1 /\ conflictJobs = 1 /\ Len(outcome) = 2) =>
       /\ cascade.telemetry = [dispatchedCount |-> 1, conflictCount |-> 1, failedCount |-> 1]
       /\ cascade.row = "dispatched" /\ cascade.status = 200

\* C22: a dispatch of two jobs on the same file is answered: the first
\* job is executing, the second failed on the conflict
ConflictFailsOnlyItsJobWitness ==
  /\ cascade.phase = "done" /\ cascade.dispatchedSessions = <<"dispatched", "conflict">>
  /\ cascade.repairJobs[1].files = cascade.repairJobs[2].files
  /\ cascade.row = "dispatched"

\* C23: whenever the Agent Provider rejects the dispatch of a newly
\* created session (job of a cascade or batch dispatch, trigger of the
\* orchestrator), the session, which holds the locks its dispatch took,
\* ends failed with lastError set and holds no lock.
ProviderErrorFailsSession ==
  [][\A h \in Handlers :
       (/\ pc[h] \in {"dispatch_jules", "trigger_jules"} /\ Steps(h)
        /\ resp'.res = "failed"
        /\ {l.filePath : l \in {k \in fileLocks : k.sessionId = loc[h].sid}} \subseteq loc[h].paths) =>
         /\ sessions'[loc[h].sid].status = "failed"
         /\ sessions'[loc[h].sid].lastError
         /\ \A l \in fileLocks' : l.sessionId # loc[h].sid]_vars

\* C23: the provider has refused a session that was created with locks:
\* the session is failed and its locks are gone
ProviderErrorFailsSessionWitness ==
  /\ resp.op \in {"dispatch", "trigger"} /\ resp.res = "failed" /\ resp.paths # {}
  /\ sessions[resp.sid].status = "failed" /\ sessions[resp.sid].lastError
  /\ \A l \in fileLocks : l.sessionId # resp.sid /\ l.filePath \notin resp.paths

\* C24: the goal becomes drifted only in a step in which a session at
\* the maximum remediation depth fails a review of its criteria; no other
\* operation (a CI failure without an assessment of the criteria, a
\* sync, a goal patch) sets the goal to drifted.
DriftedOnlyByFailedReview ==
  [][(goals'.status = "drifted" /\ goals.status # "drifted") =>
       \E h \in Handlers :
          /\ pc[h] = "review_audit" /\ Steps(h)
          /\ loc[h].depth >= MAX_REMEDIATION_DEPTH
          /\ resp'.fail]_vars

\* C25: across goal create, goal patch and review calls every criterion
\* of the goal keeps the id it was first given: a patch that resubmits a
\* criterion and a review that merges an assessment never replace or drop
\* its id.
CriterionIdsPersist ==
  [][\A i \in DOMAIN goals.acceptanceCriteria :
       LET c == goals.acceptanceCriteria[i]
           after == goals'.acceptanceCriteria IN
       (\E j \in DOMAIN after : after[j].text = c.text) =>
         \E j \in DOMAIN after : after[j].text = c.text /\ after[j].id = c.id]_vars

\* C26 (force-terminate is idempotent): every terminate call reports
\* success and leaves its session failed, with lastError set and holding
\* no locks, so a path acquired and then terminated is unlocked again; a
\* terminate of a session that is already in that state leaves sessions
\* and FileLock exactly as they were.
TerminateIdempotent ==
  [][(resp'.n # resp.n /\ resp'.op = "terminate") =>
       LET sid == resp'.sid IN
         /\ resp'.res = "success"
         /\ sessions'[sid].status = "failed" /\ sessions'[sid].lastError
         /\ \A l \in fileLocks' : l.sessionId # sid
         /\ (/\ sessions[sid].status = "failed" /\ sessions[sid].lastError
             /\ \A l \in fileLocks : l.sessionId # sid) =>
               (sessions' = sessions /\ fileLocks' = fileLocks)]_vars

\* C26: the second of two calls has terminated a session that was failed
\* and held no locks, in a registry that started without failed sessions
TerminateIdempotentWitness ==
  /\ resp.op = "terminate" /\ resp.res = "success" /\ resp.n = 2
  /\ resp.st = "failed" /\ resp.seen = {} /\ spawned = {}
  /\ sessions[resp.sid].status = "failed"
  /\ \A l \in fileLocks : l.sessionId # resp.sid

\* the rows that the acquire of the last response inserted: its session's
\* rows on the requested paths that its read had not found
Inserted ==
  {l \in fileLocks : /\ l.sessionId = resp.sid
                     /\ l.filePath \in resp.paths \ {k.filePath : k \in resp.seen}}

\* a successful acquire(S, P) is answered and release(S) is the next call
\* to be answered
ReleaseAfterAcquire ==
  /\ resp.op = "acquire" /\ resp.res = "ok" /\ resp.paths # {}
  /\ resp'.n = resp.n + 1 /\ resp'.op = "release" /\ resp'.sid = resp.sid

\* C27 as stated: release(S) after a successful acquire(S, P) leaves
\* FileLock equal to its state before the acquire, that is without the
\* rows the acquire inserted and otherwise as it was.
AcquireThenReleaseRestores ==
  [][ReleaseAfterAcquire => fileLocks' = fileLocks \ Inserted]_vars

\* C27 (acquire-then-release, amended): release(S) after a successful
\* acquire(S, P) leaves FileLock equal to its state before the acquire
\* with every lock of S removed; it is equal to the state before the
\* acquire when S held no lock then.
AcquireThenReleaseLeavesOthers ==
  [][ReleaseAfterAcquire =>
       /\ fileLocks' = {l \in fileLocks \ Inserted : l.sessionId # resp.sid}
       /\ (\A l \in fileLocks \ Inserted : l.sessionId # resp.sid) =>
            fileLocks' = fileLocks \ Inserted]_vars

\* C27: the only session of the registry has acquired b.ts and then
\* released its locks: the lock table is empty
AcquireThenReleaseWitness ==
  /\ resp.op = "release" /\ resp.n = 2 /\ DOMAIN sessions = {1}
  /\ LockRow("b.ts", resp.sid) \in resp.seen
  /\ fileLocks = {}

\* C28 (re-acquire is idempotent): an acquire(S, P) whose read finds every
\* path of P locked by S returns ok and leaves FileLock unchanged; and
\* after an acquire that returned ok on a read that is still current, S
\* holds every path of P, so the same call made again is of that kind.
ReacquireIsIdempotent ==
  [][(resp'.n # resp.n /\ resp'.op = "acquire" /\ resp'.paths # {}) =>
       /\ (resp'.paths = {l.filePath : l \in {k \in resp'.seen : k.sessionId = resp'.sid}}) =>
            (resp'.res = "ok" /\ fileLocks' = fileLocks)
       /\ (/\ resp'.res = "ok"
           /\ resp'.seen = {l \in fileLocks : l.filePath \in resp'.paths}) =>
            \A p \in resp'.paths : LockRow(p, resp'.sid) \in fileLocks']_vars

\* C28: the second of two calls has asked for a path its session had
\* acquired in the first call, and got ok
ReacquireIsIdempotentWitness ==
  /\ resp.op = "acquire" /\ resp.res = "ok" /\ resp.n = 2 /\ DOMAIN sessions = {1}
  /\ LockRow("b.ts", resp.sid) \in resp.seen /\ "b.ts" \in resp.paths
  /\ \A p \in resp.paths : LockRow(p, resp.sid) \in fileLocks

\* C29 (re-audit runs the Auditor): a re-audit of a goal whose latest
\* session has a reviewed commit, when the diff of the commit is not empty,
\* ends as a review does in which the Auditor was called: with the review
\* posted, or with the error of the Auditor.
ReAuditRunsAuditor ==
  [][(/\ resp'.n # resp.n /\ resp'.op = "re-audit"
      /\ resp'.res \notin {"no_session_to_re_audit", "empty_diff_skipped"}) =>
        resp'.res \in {"review_posted", "error"}]_vars

\* C30 (automated pushes are ignored): a push by the bot, or with the
\* marker in a commit message, is answered as ignored in one step that
\* changes no session, lock, goal or cascade, calls neither the Auditor nor
\* the Agent Provider, posts no comment and leaves no review in flight.
AutomatedPushIgnored ==
  [][/\ \A h \in Handlers : ~loc'[h].automated
     /\ (resp'.n # resp.n /\ resp'.automated) =>
          /\ resp'.res = "ignored" /\ pc' = pc
          /\ UNCHANGED <<sessions, fileLocks, goals, auditorCalls, comments,
                         julesCalls, spawned, cascade>>]_vars

\* C30: an automated push was ignored while both branches had a session
\* that a review would have found
AutomatedPushIgnoredWitness ==
  /\ resp.op = "review" /\ resp.automated /\ resp.res = "ignored"
  /\ \A b \in Branches : \E i \in DOMAIN sessions :
        /\ sessions[i].branchName = b /\ sessions[i].status \in activeSessionStatuses
        /\ sessions[i].lastReviewedCommit # resp.sha

\* the ids and texts of a list of criteria, in order
IdsAndTexts(criteria) == [i \in DOMAIN criteria |-> <<criteria[i].id, criteria[i].text>>]

\* C31 (no lost update of the criteria): the write of a review keeps the
\* criteria as they are stored at that moment, an operator patch that
\* committed after the review read the goal included, and only merges the
\* assessment into them: their number, order, ids and texts stay.
ReviewKeepsOperatorEdit ==
  [][\A h \in Handlers :
       (pc[h] = "goal_review" /\ Steps(h)) =>
         IdsAndTexts(goals'.acceptanceCriteria) = IdsAndTexts(goals.acceptanceCriteria)]_vars

\* C32 (what counts as a failed review): a review that the Auditor's
\* answer does not make a failure (every assessed criterion met, or no
\* assessment and a severity below major) marks its session completed and
\* spawns no child.
PassedReviewCompletes ==
  [][\A h \in Handlers :
       (/\ pc[h] = "review_audit" /\ Steps(h)
        /\ resp'.res = "review_posted" /\ ~resp'.fail) =>
         /\ sessions'[loc[h].sid].status = "completed"
         /\ spawned' = spawned]_vars

\* C33 (executing, reviewed without CI, goes to verifying): no step of
\* the review of a push or pull_request event takes its session from
\* executing straight to completed or failed.
ReviewLeavesExecutingForVerifying ==
  [][\A h \in Handlers :
       (/\ pc[h] \in {"review_audit", "review_dispatch"} /\ Steps(h)
        /\ loc[h].op = "review"
        /\ sessions[loc[h].sid].status = "executing") =>
         sessions'[loc[h].sid].status \notin terminalStatuses]_vars

\* a remediation child whose dispatch the Agent Provider refused
FailedChildren ==
  {r.child : r \in {q \in spawned : /\ sessions[q.child].status = "failed"
                                    /\ ~sessions[q.child].externalSessionId}}

AuditorErrorIsNotFatal ==
  [][\A h \in Handlers :
       (pc[h] = "review_audit" /\ Steps(h) /\ resp'.res = "error") =>
         \A i \in DOMAIN sessions :
            /\ sessions'[i].status = sessions[i].status
            /\ sessions'[i].lastReviewedCommit = sessions[i].lastReviewedCommit]_vars

\* C36 (the merge of an assessment): the criteria a review writes are the
\* criteria it read with the verdicts merged in: the same number, in the
\* same order, with the same ids and texts; a criterion whose id the
\* Auditor did not assess is written as it was read; an assessed id that
\* no criterion carries adds and changes nothing.
AssessmentMergedById ==
  [][\A h \in Handlers :
       (/\ pc[h] = "goal_review" /\ Steps(h)
        /\ (resp'.assessed # {} \/ goals' # goals)) =>
         LET read == loc[h].criteria
             written == goals'.acceptanceCriteria IN
         /\ IdsAndTexts(written) = IdsAndTexts(read)
         /\ \A i \in DOMAIN read :
              read[i].id \notin resp'.assessed => written[i] = read[i]
         /\ \A i \in DOMAIN written : written[i].id # UnknownId]_vars

\* a review has written two criteria of which the Auditor assessed one,
\* together with an id that no criterion carries
AssessmentMergedByIdWitness ==
  /\ resp.op = "goal_review" /\ resp.res = "review_posted"
  /\ UnknownId \in resp.assessed
  /\ Len(goals.acceptanceCriteria) = 2
  /\ goals.acceptanceCriteria[1].id \in resp.assessed
  /\ goals.acceptanceCriteria[2].id \notin resp.assessed
  /\ goals.acceptanceCriteria[1].met /\ goals.acceptanceCriteria[2].met

\* the outcomes that end a review before the Auditor is asked
EarlyOutcomes == {"no_active_session", "duplicate_commit_skipped", "empty_diff_skipped"}

\* sid is the most recently created queued, executing or verifying session
\* of the branch
MostRecentActive(tbl, branch, sid) ==
  /\ sid \in DOMAIN tbl
  /\ tbl[sid].branchName = branch /\ tbl[sid].status \in {"queued", "executing", "verifying"}
  /\ \A j \in DOMAIN tbl :
       (tbl[j].branchName = branch /\ tbl[j].status \in {"queued", "executing", "verifying"})
         => j <= sid

VerifyingEnds ==
  \A i \in SessionIds :
     (i \in DOMAIN sessions /\ sessions[i].status = "verifying")
       ~> (i \in DOMAIN sessions /\ sessions[i].status \in terminalStatuses)

\* C39 (a closed pull request cleans its branch): when a pull_request
\* closed event for a branch has been handled, no session of the branch
\* is queued, executing or verifying and none holds a lock, however many
\* sessions share the branch.
PRClosedCleansBranch ==
  [][(resp'.n # resp.n /\ resp'.op = "pr_closed") =>
       \A i \in DOMAIN sessions' :
          sessions'[i].branchName = resp'.branch =>
            /\ sessions'[i].status \in terminalStatuses
            /\ \A l \in fileLocks' : l.sessionId # i]_vars

\* status, lastError and locks of session i are the same after the step
Untouched(i) ==
  /\ sessions'[i].status = sessions[i].status
  /\ sessions'[i].lastError = sessions[i].lastError
  /\ {l \in fileLocks' : l.sessionId = i} = {l \in fileLocks : l.sessionId = i}

\* C40 (a batch dispatch leaves the sessions it found): no step of a batch
\* dispatch changes the status, the lastError or the locks of a session
\* that existed when the request arrived, also when the request names the
\* cascade and the job of an earlier dispatch.
DispatchLeavesOldSessions ==
  [][/\ (resp'.n # resp.n /\ resp'.op = "dispatch_again") =>
          \A i \in DOMAIN sessions : Untouched(i)
     /\ (resp'.n # resp.n /\ resp'.op = "dispatch") =>
          \A i \in DOMAIN sessions \ {resp'.sid} : Untouched(i)
     /\ \A h \in Handlers :
          (Steps(h) /\ (loc[h].op = "dispatch" \/ loc'[h].op = "dispatch")) =>
            \A i \in DOMAIN sessions \ {loc[h].sid} : Untouched(i)]_vars

\* ------------------------------------------------------ specification
Next ==
  \E h \in Handlers :
    \/ AcquireLocksBegin(h) \/ AcquireLocksInsert(h) \/ ReleaseLocksCall(h)
    \/ DispatchJob(h) \/ DispatchJobAgain(h) \/ DispatchJules(h)
    \/ TriggerJulesSession(h) \/ TriggerJules(h)
    \/ Terminate(h)
    \/ ReviewBegin(h) \/ ReAuditBegin(h) \/ ReviewAudit(h) \/ ReviewDispatch(h)
    \/ CheckRunBegin(h) \/ CIFailed(h) \/ AnalyzeRejected(h)
    \/ AutoRemediate(h) \/ AutoRemediateDispatch(h)
    \/ PRClosed(h)
    \/ SyncBegin(h) \/ SyncTx(h) \/ SyncCommit(h)

Spec == Init /\ [][Next]_vars

\* a handler that has begun a request goes on to its end: the runtime runs
\* the rest of a route and of an after() callback; no request has to arrive
Callback(h) == pc[h] # "idle" /\ Next /\ Steps(h)

SpecFair == Init /\ [][Next]_vars /\ \A h \in Handlers : WF_vars(Callback(h))

NextCascade == CascadeAnalyze \/ CascadeDispatchJob \/ CascadeRespond

SpecCascade == InitCascade /\ [][NextCascade]_vars

NextGoal == CreateGoal \/ PatchGoal \/ \E h \in Handlers : GoalReviewRead(h) \/ GoalReviewWrite(h)

SpecGoal == InitGoal /\ [][NextGoal]_vars
====
